---- MODULE Spec2Model ----
(***************************************************************************)
(* Model of lc0's self-play command loop (src/selfplay/loop.cc): the       *)
(* lifecycle of the tournament handle and its background thread, and the   *)
(* text lines SendGameInfo and SendTournament hand to the output sink.     *)
(***************************************************************************)
EXTENDS Integers, Sequences, FiniteSets, TLC

\* ------------------------------------------------------------------ bounds
\* Largest value of one entry of TournamentInfo::results.
MaxCount == 3
\* Longest move list of a GameInfo.
MaxMoves == 2
\* Most callbacks one tournament run delivers in the lifecycle model.
MaxEvents == 2
\* Most commands the control context reads in the lifecycle model.
MaxCmds == 2
\* Number of options ListOptionsUci() lists in the lifecycle model.
NumOptions == 1
\* Most changes of the option store in the SearchParams model.
MaxUpdates == 2
\* Most accessor calls in the SearchParams model.
MaxReads == 2

VARIABLES
  ctl,           \* position of the control context (the thread that owns the loop)
  tournament_,   \* SelfPlayLoop::tournament_: 0 = null, else id of the tournament
  thread_,       \* SelfPlayLoop::thread_: 0 = null, else id of the std::thread
  nTournaments,  \* SelfPlayTournament objects constructed so far
  nThreads,      \* std::thread objects constructed so far
  abort_,        \* the tournament's cooperative abort signal
  runner,        \* the RunBlocking() call: "none", "running", "exited"
  optval,        \* value of the option store's entry, changed by setoption
  out,           \* the output sink: the lines handed to it, in order
  nEvents,       \* callbacks delivered so far
  nCmds,         \* commands read so far
  nStarts,       \* start commands among them
  ginfo,         \* argument of the SendGameInfo call being made
  tinfo,         \* argument of the SendTournament call being made
  params         \* a SearchParams object and the option store it refers to

vars == <<ctl, tournament_, thread_, nTournaments, nThreads, abort_, runner,
          optval, out, nEvents, nCmds, nStarts, ginfo, tinfo, params>>

\* ------------------------------------------------------------ text helpers
\* One group of a line: a keyword and the words that follow it.
Group(tag, args) == [tag |-> tag, args |-> args]

\* Two decimal digits of n in 0..99.
TwoDigits(n) == ToString(n \div 10) \o ToString(n % 10)

\* std::to_string(int).
IntToString(n) == ToString(n)

\* std::to_string(float) of h/100: "%f", six decimals.
FloatToString(h) == ToString(h \div 100) \o "." \o TwoDigits(h % 100) \o "0000"

\* Move::as_string() of the moves the model plays.
MoveAsString(m) == IF m = 1 THEN "e2e4" ELSE IF m = 2 THEN "e7e5" ELSE "g1f3"

\* --------------------------------------------------------------- GameInfo
GameResults == {"UNDECIDED", "DRAW", "WHITE_WON", "BLACK_WON"}

OptBool == {[has |-> FALSE, val |-> FALSE], [has |-> TRUE, val |-> FALSE],
            [has |-> TRUE, val |-> TRUE]}

\* optional<float>, in hundredths; 0.0 is a present value.
OptFloat == {[has |-> FALSE, val |-> 0], [has |-> TRUE, val |-> 0],
             [has |-> TRUE, val |-> 5]}

MoveLists == UNION {[1..n -> 1..2] : n \in 0..MaxMoves}

GameInfos ==
  [training_filename : {"", "game 1.gz"},
   game_id : {-1, 0, 7},
   is_black : OptBool,
   game_result : GameResults,
   moves : MoveLists,
   min_false_positive_threshold : OptFloat]

NoGameInfo ==
  [training_filename |-> "", game_id |-> -1,
   is_black |-> [has |-> FALSE, val |-> FALSE],
   game_result |-> "UNDECIDED", moves |-> <<>>,
   min_false_positive_threshold |-> [has |-> FALSE, val |-> 0]]

\* ResignReport testing the threshold's value instead of its presence.
ResignReportIfNonzero(info) ==
  IF info.min_false_positive_threshold.has
     /\ info.min_false_positive_threshold.val # 0
  THEN << <<Group("resign_report", <<>>),
            Group("fp_threshold",
                  <<FloatToString(info.min_false_positive_threshold.val)>>)>> >>
  ELSE <<>>

\* loop.cc 95-100: the resign report, pushed first when the threshold is set.
ResignReport(info) ==
  IF info.min_false_positive_threshold.has
  THEN << <<Group("resign_report", <<>>),
            Group("fp_threshold",
                  <<FloatToString(info.min_false_positive_threshold.val)>>)>> >>
  ELSE <<>>

\* loop.cc 102-103.
TrainingFileGroup(info) ==
  IF info.training_filename # ""
  THEN <<Group("trainingfile", <<info.training_filename>>)>> ELSE <<>>

\* GameIdGroup testing the id as a truth value.
GameIdGroupIfNonzero(info) ==
  IF info.game_id # 0
  THEN <<Group("gameid", <<IntToString(info.game_id)>>)>> ELSE <<>>

\* loop.cc 104.
GameIdGroup(info) ==
  IF info.game_id # -1
  THEN <<Group("gameid", <<IntToString(info.game_id)>>)>> ELSE <<>>

\* loop.cc 105-106.
Player1Group(info) ==
  IF info.is_black.has
  THEN <<Group("player1", <<IF info.is_black.val THEN "black" ELSE "white">>)>>
  ELSE <<>>

\* loop.cc 107-113.
ResultGroup(info) ==
  IF info.game_result # "UNDECIDED"
  THEN <<Group("result",
               <<IF info.game_result = "DRAW" THEN "draw"
                 ELSE IF info.game_result = "WHITE_WON" THEN "whitewon"
                 ELSE "blackwon">>)>>
  ELSE <<>>

\* loop.cc 114-117.
MovesGroup(info) ==
  IF info.moves # <<>>
  THEN <<Group("moves", [i \in 1..Len(info.moves) |-> MoveAsString(info.moves[i])])>>
  ELSE <<>>

\* loop.cc 101-118: the gameready line, groups appended in source order.
GameReady(info) ==
  <<Group("gameready", <<>>)>> \o TrainingFileGroup(info) \o GameIdGroup(info)
    \o Player1Group(info) \o ResultGroup(info) \o MovesGroup(info)

\* loop.cc 90-120: the vector `responses` handed to SendResponses.
SendGameInfo(info) == ResignReport(info) \o <<GameReady(info)>>

\* --------------------------------------------------------- TournamentInfo
\* results[win/draw/loss][player 1 as white/black].
Tallies == [0..2 -> [0..1 -> 0..MaxCount]]

TournamentInfos == [results : Tallies, finished : BOOLEAN]

ZeroTally == [i \in 0..2 |-> [j \in 0..1 |-> 0]]

NoTournamentInfo == [results |-> ZeroTally, finished |-> FALSE]

\* loop.cc 129-131.
Winp1(info) == info.results[0][0] + info.results[0][1]

Loosep1(info) == info.results[2][0] + info.results[2][1]

Draws(info) == info.results[1][0] + info.results[1][1]

\* A float held as the exact fraction n/d it was computed from (the counts of
\* the model are far below 2^24, where float comparisons of these fractions
\* with 0 and 1 are exact).
Rat(n, d) == [n |-> n, d |-> d]

RatGt0(x) == x.n > 0

RatLt1(x) == x.n < x.d

\* loop.cc 134: float percentage = -1.
PercentageInit == Rat(-1, 1)

\* loop.cc 139-141: (float(draws) / 2 + winp1) / (winp1 + loosep1 + draws).
Percentage(info) ==
  IF (Winp1(info) + Loosep1(info) + Draws(info)) > 0
  THEN Rat(Draws(info) + 2 * Winp1(info),
           2 * (Winp1(info) + Loosep1(info) + Draws(info)))
  ELSE PercentageInit

\* elo is 10000 (sentinel) or -400 * log10(rn / rd), rn/rd = 1/percentage - 1.
\* loop.cc 135: float elo = 10000.
EloInit == [sentinel |-> TRUE, rn |-> 1, rd |-> 1]

\* Elo without the lower guard on percentage.
EloNoLowerGuard(info) ==
  IF RatLt1(Percentage(info))
  THEN [sentinel |-> FALSE,
        rn |-> Percentage(info).d - Percentage(info).n,
        rd |-> Percentage(info).n]
  ELSE EloInit

\* loop.cc 145-146.
Elo(info) ==
  IF RatLt1(Percentage(info)) /\ RatGt0(Percentage(info))
  THEN [sentinel |-> FALSE,
        rn |-> Percentage(info).d - Percentage(info).n,
        rd |-> Percentage(info).n]
  ELSE EloInit

\* a * 10^k > b, for k >= 0, without leaving 32 bits.
RECURSIVE TimesPow10Exceeds(_, _, _)
TimesPow10Exceeds(a, b, k) ==
  IF a > b THEN TRUE
  ELSE IF k = 0 \/ a <= 0 THEN FALSE
  ELSE TimesPow10Exceeds(a * 10, b, k - 1)

\* loop.cc 162: elo < 10000, i.e. log10(rn/rd) > -25, i.e. rn * 10^25 > rd.
EloLt10000(e) == IF e.sentinel THEN FALSE ELSE TimesPow10Exceeds(e.rn, e.rd, 25)

\* los initialised to a value below the sentinel.
LosInitZero == [sentinel |-> FALSE, diff |-> 0, games |-> 1]

\* los is 10000 (sentinel) or .5 + .5 * erf(diff / sqrt(2 * games)).
\* loop.cc 136: float los = 10000.
LosInit == [sentinel |-> TRUE, diff |-> 0, games |-> 1]

\* Los guarded by the number of games, draws included.
LosCountsDraws(info) ==
  IF (Winp1(info) + Loosep1(info) + Draws(info)) > 0
  THEN [sentinel |-> FALSE, diff |-> Winp1(info) - Loosep1(info),
        games |-> Winp1(info) + Loosep1(info)]
  ELSE LosInit

\* loop.cc 147-149.
Los(info) ==
  IF (Winp1(info) + Loosep1(info)) > 0
  THEN [sentinel |-> FALSE, diff |-> Winp1(info) - Loosep1(info),
        games |-> Winp1(info) + Loosep1(info)]
  ELSE LosInit

\* loop.cc 167: los < 10000; erf lies in [-1, 1], so a computed los is in [0, 1].
LosLt10000(l) == ~l.sentinel

\* a / b rounded to an integer, ties to even (a >= 0, b > 0).
RoundHalfEven(a, b) ==
  IF 2 * (a % b) < b THEN a \div b
  ELSE IF 2 * (a % b) > b THEN (a \div b) + 1
  ELSE IF (a \div b) % 2 = 0 THEN a \div b ELSE (a \div b) + 1

\* std::fixed << std::setw(5) << std::setprecision(2) of h/100, h >= 0.
Fixed2W5(h) ==
  (IF h < 1000 THEN " " ELSE "") \o ToString(h \div 100) \o "." \o TwoDigits(h % 100)

\* loop.cc 156-161.
WinGroup(info) ==
  IF RatGt0(Percentage(info))
  THEN <<Group("Win:",
               <<Fixed2W5(RoundHalfEven(Percentage(info).n * 10000,
                                        Percentage(info).d)) \o "%">>)>>
  ELSE <<>>

\* The text of a computed elo: -400 * log(1) / log(10) is -0.0, which prints
\* with its sign; other values are left as the expression they stand for.
EloText(e) ==
  IF e.rn = e.rd THEN "-0.00"
  ELSE "-400*log10(" \o ToString(e.rn) \o "/" \o ToString(e.rd) \o ")"

\* loop.cc 162-166.
EloGroup(info) ==
  IF EloLt10000(Elo(info)) THEN <<Group("Elo:", <<EloText(Elo(info))>>)>> ELSE <<>>

\* The text of a computed los: erf(0) = 0 gives 50.00; other values are left
\* as the expression they stand for.
LosText(l) ==
  IF l.diff = 0 THEN "50.00%"
  ELSE "100*(.5+.5*erf(" \o ToString(l.diff) \o "/sqrt(" \o ToString(2 * l.games) \o ")))%"

\* loop.cc 167-172.
LosGroup(info) ==
  IF LosLt10000(Los(info)) THEN <<Group("LOS:", <<LosText(Los(info))>>)>> ELSE <<>>

\* FinalGroup with the test of the flag inverted.
FinalGroupNegated(info) == IF ~info.finished THEN <<Group("final", <<>>)>> ELSE <<>>

\* loop.cc 152.
FinalGroup(info) == IF info.finished THEN <<Group("final", <<>>)>> ELSE <<>>

\* "+w -l =d".
Score(w, l, d) ==
  <<"+" \o IntToString(w), "-" \o IntToString(l), "=" \o IntToString(d)>>

\* loop.cc 128-181: the line handed to SendResponse.
SendTournament(info) ==
  <<Group("tournamentstatus", <<>>)>> \o FinalGroup(info)
    \o <<Group("P1:", Score(Winp1(info), Loosep1(info), Draws(info)))>>
    \o WinGroup(info) \o EloGroup(info) \o LosGroup(info)
    \o <<Group("P1-W:", Score(info.results[0][0], info.results[2][0],
                              info.results[1][0]))>>
    \o <<Group("P1-B:", Score(info.results[0][1], info.results[2][1],
                              info.results[1][1]))>>

\* ------------------------------------------------------------- output sink
\* A line of the sink: its groups, and the callback that produced it (0 for a
\* line the control context wrote itself).
Line(ev, groups) == [ev |-> ev, groups |-> groups]

\* UciLoop::SendResponses: the lines of one call reach the sink together, in
\* the order of the vector.
SendResponses(ev, responses) ==
  out' = out \o [i \in 1..Len(responses) |-> Line(ev, responses[i])]

\* UciLoop::SendResponse: one line.
SendResponse(ev, response) == SendResponses(ev, <<response>>)

\* UciLoop::SendId: the identity block.
SendId == SendResponse(0, <<Group("id", <<>>)>>)

At(pc) == ctl.pc = pc

Goto(pc) == ctl' = [pc |-> pc, k |-> 0]

\* The game and status arguments the tournament passes in the lifecycle model.
LoopGameInfos ==
  {NoGameInfo,
   [NoGameInfo EXCEPT !.game_id = 7, !.moves = <<1>>,
                      !.min_false_positive_threshold = [has |-> TRUE, val |-> 5]]}

LoopTournamentInfos ==
  {NoTournamentInfo,
   [results |-> [ZeroTally EXCEPT ![0] = [j \in 0..1 |-> 1]], finished |-> TRUE]}

\* ----------------------------------------------------------- SearchParams
\* The option ids of params.h 113-161 that the modelled accessors read.
ParamIds ==
  <<"kCconId", "kCconAtRootId", "kCpenId", "kCpenAtRootId", "kCattId",
    "kCattAtRootId", "kFpuStrategyId", "kFpuStrategyAtRootId", "kFpuValueId",
    "kFpuValueAtRootId", "kMiniBatchSizeId", "kNoiseEpsilonId",
    "kTemperatureId", "kMultiPvId", "kMaxPrefetchBatchId">>

ParamIdSet == {ParamIds[i] : i \in 1..Len(ParamIds)}

\* The cached members of params.h 171-205 behind the modelled accessors, each
\* with the option it is a snapshot of.
CachedFields ==
  <<"kCcon", "kCconAtRoot", "kCpen", "kCpenAtRoot", "kCatt", "kCattAtRoot",
    "kFpuAbsolute", "kFpuAbsoluteAtRoot", "kFpuValue", "kFpuValueAtRoot",
    "kMiniBatchSize", "kNoiseEpsilon">>

CachedFieldSet == {CachedFields[i] : i \in 1..Len(CachedFields)}

FieldId(f) == ParamIds[CHOOSE i \in 1..Len(CachedFields) : CachedFields[i] = f]

\* SearchParams::Populate: every option registered, each with its own default.
DefaultStore ==
  [id \in ParamIdSet |-> CHOOSE i \in 1..Len(ParamIds) : ParamIds[i] = id]

\* Before a SearchParams object exists: the populated store only.
NoParams ==
  [store |-> DefaultStore,
   constructed |-> FALSE,
   k |-> [f \in CachedFieldSet |-> 0],
   snap |-> DefaultStore,
   nUpdates |-> 0,
   nReads |-> 0,
   read |-> [acc |-> "", at_root |-> FALSE, val |-> 0]]

\* GetCpen with the two members exchanged.
GetCpenSwapped(at_root) == IF at_root THEN params.k["kCpen"] ELSE params.k["kCpenAtRoot"]

\* GetMiniBatchSize reading the store instead of the member.
GetMiniBatchSizeLive == params.store["kMiniBatchSizeId"]

\* params.h 45.
GetMiniBatchSize == params.k["kMiniBatchSize"]

\* params.h 46-48.
GetMaxPrefetchBatch == params.store["kMaxPrefetchBatchId"]

\* params.h 50.
GetCcon(at_root) == IF at_root THEN params.k["kCconAtRoot"] ELSE params.k["kCcon"]

\* params.h 51.
GetCpen(at_root) == IF at_root THEN params.k["kCpenAtRoot"] ELSE params.k["kCpen"]

\* params.h 52.
GetCatt(at_root) == IF at_root THEN params.k["kCattAtRoot"] ELSE params.k["kCatt"]

\* params.h 54.
GetTemperature == params.store["kTemperatureId"]

\* params.h 72.
GetNoiseEpsilon == params.k["kNoiseEpsilon"]

\* params.h 76-78.
GetFpuAbsolute(at_root) ==
  IF at_root THEN params.k["kFpuAbsoluteAtRoot"] ELSE params.k["kFpuAbsolute"]

\* params.h 79-81.
GetFpuValue(at_root) ==
  IF at_root THEN params.k["kFpuValueAtRoot"] ELSE params.k["kFpuValue"]

\* params.h 89.
GetMultiPv == params.store["kMultiPvId"]

PairedAccessors == {"GetCcon", "GetCpen", "GetCatt", "GetFpuAbsolute", "GetFpuValue"}

CachedAccessors == PairedAccessors \cup {"GetMiniBatchSize", "GetNoiseEpsilon"}

LiveAccessors == {"GetTemperature", "GetMultiPv", "GetMaxPrefetchBatch"}

\* The call acc(at_root); the accessors without a parameter ignore at_root.
Call(acc, at_root) ==
  CASE acc = "GetCcon" -> GetCcon(at_root)
    [] acc = "GetCpen" -> GetCpen(at_root)
    [] acc = "GetCatt" -> GetCatt(at_root)
    [] acc = "GetFpuAbsolute" -> GetFpuAbsolute(at_root)
    [] acc = "GetFpuValue" -> GetFpuValue(at_root)
    [] acc = "GetMiniBatchSize" -> GetMiniBatchSize
    [] acc = "GetNoiseEpsilon" -> GetNoiseEpsilon
    [] acc = "GetTemperature" -> GetTemperature
    [] acc = "GetMultiPv" -> GetMultiPv
    [] acc = "GetMaxPrefetchBatch" -> GetMaxPrefetchBatch

Others ==
  <<ctl, tournament_, thread_, nTournaments, nThreads, abort_, runner, optval,
    out, nEvents, nCmds, nStarts, ginfo, tinfo>>

\* SearchParams::SearchParams(const OptionsDict&): options_ refers to the
\* store, and every cached member takes the current value of its option.
ConstructParams ==
  /\ ~params.constructed
  /\ params' = [params EXCEPT !.constructed = TRUE,
                              !.k = [f \in CachedFieldSet |-> params.store[FieldId(f)]],
                              !.snap = params.store]
  /\ UNCHANGED Others

\* The option store is changed from outside (a flag, a setoption).
UpdateStore ==
  /\ params.nUpdates < MaxUpdates
  /\ \E id \in ParamIdSet :
       params' = [params EXCEPT !.store[id] = params.store[id] + 20,
                                !.nUpdates = params.nUpdates + 1]
  /\ UNCHANGED Others

\* One accessor is called on the constructed object.
ReadParam ==
  /\ params.constructed
  /\ params.nReads < MaxReads
  /\ \E acc \in CachedAccessors \cup LiveAccessors,
        at_root \in BOOLEAN :
       /\ at_root => acc \in PairedAccessors
       /\ params' = [params EXCEPT
                       !.read = [acc |-> acc, at_root |-> at_root,
                                 val |-> Call(acc, at_root)],
                       !.nReads = params.nReads + 1]
  /\ UNCHANGED Others

\* ------------------------------------------------------------------- Init
\* SelfPlayLoop::SelfPlayLoop(): no tournament, no thread; the interactive
\* option is registered with default false.
Init ==
  /\ ctl = [pc |-> "init", k |-> 0]
  /\ tournament_ = 0
  /\ thread_ = 0
  /\ nTournaments = 0
  /\ nThreads = 0
  /\ abort_ = FALSE
  /\ runner = "none"
  /\ optval = 0
  /\ out = <<>>
  /\ nEvents = 0
  /\ nCmds = 0
  /\ nStarts = 0
  /\ ginfo = NoGameInfo
  /\ tinfo = NoTournamentInfo
  /\ params = NoParams

\* ------------------------------------------------------------ the commands
\* loop.cc 53: ProcessAllFlags() fails and RunLoop returns.
RunLoopBadFlags ==
  /\ At("init")
  /\ Goto("returned")
  /\ UNCHANGED <<params, tournament_, thread_, nTournaments, nThreads, abort_, runner,
                 optval, out, nEvents, nCmds, nStarts, ginfo, tinfo>>

\* loop.cc 54-55: interactive mode, UciLoop::RunLoop reads commands.
RunLoopInteractive ==
  /\ At("init")
  /\ Goto("loop")
  /\ UNCHANGED <<params, tournament_, thread_, nTournaments, nThreads, abort_, runner,
                 optval, out, nEvents, nCmds, nStarts, ginfo, tinfo>>

\* RunLoop starting the batch tournament without sending the id first.
RunLoopBatchNoId ==
  /\ At("init")
  /\ nTournaments' = nTournaments + 1
  /\ runner' = "running"
  /\ Goto("batch")
  /\ UNCHANGED <<params, tournament_, thread_, nThreads, abort_, optval, out,
                 nEvents, nCmds, nStarts, ginfo, tinfo>>

\* RunLoop keeping the batch tournament in tournament_.
RunLoopBatchKeepsHandle ==
  /\ At("init")
  /\ SendId
  /\ tournament_' = nTournaments + 1
  /\ nTournaments' = nTournaments + 1
  /\ runner' = "running"
  /\ Goto("batch")
  /\ UNCHANGED <<params, thread_, nThreads, abort_, optval, nEvents, nCmds,
                 nStarts, ginfo, tinfo>>

\* loop.cc 56-66: batch mode: SendId, then a local tournament whose
\* RunBlocking() runs on the calling context.
RunLoopBatch ==
  /\ At("init")
  /\ SendId
  /\ nTournaments' = nTournaments + 1
  /\ runner' = "running"
  /\ Goto("batch")
  /\ UNCHANGED <<params, tournament_, thread_, nThreads, abort_, optval, nEvents, nCmds, nStarts,
                 ginfo, tinfo>>

\* loop.cc 66-68: RunBlocking() has returned, and RunLoop returns.
RunLoopBatchReturn ==
  /\ At("batch")
  /\ runner = "exited"
  /\ Goto("returned")
  /\ UNCHANGED <<params, tournament_, thread_, nTournaments, nThreads, abort_, runner,
                 optval, out, nEvents, nCmds, nStarts, ginfo, tinfo>>

\* CmdStart without the early return.
CmdStartNoGuard ==
  /\ At("loop")
  /\ nCmds < MaxCmds
  /\ nCmds' = nCmds + 1
  /\ tournament_' = nTournaments + 1
  /\ nTournaments' = nTournaments + 1
  /\ thread_' = nThreads + 1
  /\ nThreads' = nThreads + 1
  /\ runner' = "running"
  /\ nStarts' = nStarts + 1
  /\ UNCHANGED <<params, ctl, abort_, optval, out, nEvents, ginfo, tinfo>>

\* CmdStart answering a redundant start with an error line.
CmdStartReportsBusy ==
  /\ At("loop")
  /\ nCmds < MaxCmds
  /\ nCmds' = nCmds + 1
  /\ IF tournament_ # 0
     THEN /\ SendResponse(0, <<Group("error", <<"already running">>)>>)
          /\ UNCHANGED <<tournament_, thread_, nTournaments, nThreads, runner>>
     ELSE /\ tournament_' = nTournaments + 1
          /\ nTournaments' = nTournaments + 1
          /\ thread_' = nThreads + 1
          /\ nThreads' = nThreads + 1
          /\ runner' = "running"
          /\ UNCHANGED out
  /\ nStarts' = nStarts + 1
  /\ UNCHANGED <<params, ctl, abort_, optval, nEvents, ginfo, tinfo>>

\* CmdStart returning early only while the tournament is still running.
CmdStartRestartsFinished ==
  /\ At("loop")
  /\ nCmds < MaxCmds
  /\ nCmds' = nCmds + 1
  /\ IF tournament_ # 0 /\ runner # "exited"
     THEN UNCHANGED <<tournament_, thread_, nTournaments, nThreads, runner>>
     ELSE /\ tournament_' = nTournaments + 1
          /\ nTournaments' = nTournaments + 1
          /\ thread_' = nThreads + 1
          /\ nThreads' = nThreads + 1
          /\ runner' = "running"
  /\ nStarts' = nStarts + 1
  /\ UNCHANGED <<params, ctl, abort_, optval, out, nEvents, ginfo, tinfo>>

\* loop.cc 78-88.
CmdStart ==
  /\ At("loop")
  /\ nCmds < MaxCmds
  /\ nCmds' = nCmds + 1
  /\ IF tournament_ # 0
     THEN UNCHANGED <<tournament_, thread_, nTournaments, nThreads, runner>>
     ELSE /\ tournament_' = nTournaments + 1
          /\ nTournaments' = nTournaments + 1
          /\ thread_' = nThreads + 1
          /\ nThreads' = nThreads + 1
          /\ runner' = "running"
  /\ nStarts' = nStarts + 1
  /\ UNCHANGED <<params, ctl, abort_, optval, out, nEvents, ginfo, tinfo>>

\* loop.cc 70-71: the uci command arrives; SendId.
CmdUci ==
  /\ At("loop")
  /\ nCmds < MaxCmds
  /\ nCmds' = nCmds + 1
  /\ SendId
  /\ Goto("uci")
  /\ UNCHANGED <<params, tournament_, thread_, nTournaments, nThreads, abort_, runner,
                 optval, nEvents, ginfo, tinfo, nStarts>>

\* loop.cc 72-74: one option line per SendResponse.
CmdUciOption ==
  /\ At("uci")
  /\ ctl.k < NumOptions
  /\ SendResponse(0, <<Group("option", <<IntToString(ctl.k + 1)>>)>>)
  /\ ctl' = [ctl EXCEPT !.k = ctl.k + 1]
  /\ UNCHANGED <<params, tournament_, thread_, nTournaments, nThreads, abort_, runner,
                 optval, nEvents, nCmds, nStarts, ginfo, tinfo>>

\* CmdUci sending uciok without waiting for the end of the option list.
CmdUciOkEarly ==
  /\ At("uci")
  /\ SendResponse(0, <<Group("uciok", <<>>)>>)
  /\ Goto("loop")
  /\ UNCHANGED <<params, tournament_, thread_, nTournaments, nThreads, abort_,
                 runner, optval, nEvents, nCmds, nStarts, ginfo, tinfo>>

\* loop.cc 75.
CmdUciOk ==
  /\ At("uci")
  /\ ctl.k = NumOptions
  /\ SendResponse(0, <<Group("uciok", <<>>)>>)
  /\ Goto("loop")
  /\ UNCHANGED <<params, tournament_, thread_, nTournaments, nThreads, abort_, runner,
                 optval, nEvents, nCmds, nStarts, ginfo, tinfo>>

\* OptionsParser::SetUciOption, with UciLoop's handler around it: a known name
\* with a valid value is stored; anything else is answered with an error line.
SetUciOption(name, value) ==
  IF name = "known" /\ value \in 0..1
  THEN optval' = value /\ UNCHANGED out
  ELSE SendResponse(0, <<Group("error", <<"setoption">>)>>) /\ UNCHANGED optval

\* CmdSetOption ending the command loop when the option is rejected.
CmdSetOptionQuitsOnError ==
  /\ At("loop")
  /\ nCmds < MaxCmds
  /\ nCmds' = nCmds + 1
  /\ \E name \in {"known", "unknown"}, value \in 0..2 :
       /\ SetUciOption(name, value)
       /\ IF name = "known" /\ value \in 0..1 THEN UNCHANGED ctl ELSE Goto("returned")
  /\ UNCHANGED <<params, tournament_, thread_, nTournaments, nThreads, abort_,
                 runner, nEvents, ginfo, tinfo, nStarts>>

\* loop.cc 122-126.
CmdSetOption ==
  /\ At("loop")
  /\ nCmds < MaxCmds
  /\ nCmds' = nCmds + 1
  /\ \E name \in {"known", "unknown"}, value \in 0..2 : SetUciOption(name, value)
  /\ UNCHANGED <<params, ctl, tournament_, thread_, nTournaments, nThreads, abort_,
                 runner, nEvents, ginfo, tinfo, nStarts>>

\* UciLoop::RunLoop: a line that is no command is answered with an error line.
CmdUnknown ==
  /\ At("loop")
  /\ nCmds < MaxCmds
  /\ nCmds' = nCmds + 1
  /\ SendResponse(0, <<Group("error", <<"unknown command">>)>>)
  /\ UNCHANGED <<params, ctl, tournament_, thread_, nTournaments, nThreads, abort_,
                 runner, optval, nEvents, ginfo, tinfo, nStarts>>

\* UciLoop::RunLoop: end of input (or quit); RunLoop returns.
Quit ==
  /\ At("loop")
  /\ Goto("returned")
  /\ UNCHANGED <<params, tournament_, thread_, nTournaments, nThreads, abort_, runner,
                 optval, out, nEvents, nCmds, nStarts, ginfo, tinfo>>

\* --------------------------------------------------------- the tournament
\* SendGameInfo handing its two lines to the sink in two calls: the first call
\* leaves the callback unfinished, the second completes it.
DeliverGameInfoUnbatched(info) ==
  /\ runner = "running"
  /\ IF \E i \in 1..Len(out) : out[i].ev = nEvents + 1
     THEN /\ info = ginfo
          /\ SendResponse(nEvents + 1, GameReady(info))
          /\ nEvents' = nEvents + 1
          /\ UNCHANGED ginfo
     ELSE IF info.min_false_positive_threshold.has
     THEN /\ SendResponses(nEvents + 1, ResignReport(info))
          /\ ginfo' = info
          /\ UNCHANGED nEvents
     ELSE /\ SendResponse(nEvents + 1, GameReady(info))
          /\ ginfo' = info
          /\ nEvents' = nEvents + 1
  /\ UNCHANGED <<params, ctl, tournament_, thread_, nTournaments, nThreads,
                 abort_, runner, optval, nCmds, nStarts, tinfo>>

\* The per-game callback: loop.cc 90-120 with the argument `info`.
DeliverGameInfo(info) ==
  /\ runner = "running"
  /\ ginfo' = info
  /\ SendResponses(nEvents + 1, SendGameInfo(info))
  /\ nEvents' = nEvents + 1
  /\ UNCHANGED <<params, ctl, tournament_, thread_, nTournaments, nThreads, abort_,
                 runner, optval, nCmds, nStarts, tinfo>>

\* The status callback: loop.cc 128-181 with the argument `info`.
DeliverTournament(info) ==
  /\ runner = "running"
  /\ tinfo' = info
  /\ SendResponse(nEvents + 1, SendTournament(info))
  /\ nEvents' = nEvents + 1
  /\ UNCHANGED <<params, ctl, tournament_, thread_, nTournaments, nThreads, abort_,
                 runner, optval, nCmds, nStarts, ginfo>>

WorkerGame == nEvents < MaxEvents /\ \E info \in LoopGameInfos : DeliverGameInfo(info)

WorkerStatus ==
  nEvents < MaxEvents /\ \E info \in LoopTournamentInfos : DeliverTournament(info)

\* UciLoop::SendBestMove / SendInfo, bound as the first two callbacks.
WorkerInfo ==
  /\ runner = "running"
  /\ nEvents < MaxEvents
  /\ \E kind \in {"bestmove", "info"} :
       SendResponse(nEvents + 1, <<Group(kind, <<>>)>>)
  /\ nEvents' = nEvents + 1
  /\ UNCHANGED <<params, ctl, tournament_, thread_, nTournaments, nThreads, abort_,
                 runner, optval, nCmds, nStarts, ginfo, tinfo>>

\* SelfPlayTournament::RunBlocking returns: the games are over, or the abort
\* signal was seen at a checkpoint.
RunBlockingReturn ==
  /\ runner = "running"
  /\ runner' = "exited"
  /\ UNCHANGED <<params, ctl, tournament_, thread_, nTournaments, nThreads, abort_,
                 optval, out, nEvents, nCmds, nStarts, ginfo, tinfo>>

\* ---------------------------------------------------------- the destructor
\* The destructor going to join without signalling the tournament.
DtorAbortNoSignal ==
  /\ At("init") \/ At("returned")
  /\ Goto("dtor_join")
  /\ UNCHANGED <<params, tournament_, thread_, nTournaments, nThreads, abort_, runner,
                 optval, out, nEvents, nCmds, nStarts, ginfo, tinfo>>

\* loop.cc 45: if (tournament_) tournament_->Abort().
DtorAbort ==
  /\ At("init") \/ At("returned")
  /\ abort_' = IF tournament_ # 0 THEN TRUE ELSE abort_
  /\ Goto("dtor_join")
  /\ UNCHANGED <<params, tournament_, thread_, nTournaments, nThreads, runner, optval,
                 out, nEvents, nCmds, nStarts, ginfo, tinfo>>

\* std::thread::join() returns once the thread's function has returned.
Joined == runner = "exited"

\* The destructor returning without waiting for the thread.
DtorJoinNoWait ==
  /\ At("dtor_join")
  /\ Goto("destroyed")
  /\ UNCHANGED <<params, tournament_, thread_, nTournaments, nThreads, abort_, runner,
                 optval, out, nEvents, nCmds, nStarts, ginfo, tinfo>>

\* loop.cc 46: if (thread_) thread_->join(); then the destructor returns.
DtorJoin ==
  /\ At("dtor_join")
  /\ thread_ # 0 => Joined
  /\ Goto("destroyed")
  /\ UNCHANGED <<params, tournament_, thread_, nTournaments, nThreads, abort_, runner,
                 optval, out, nEvents, nCmds, nStarts, ginfo, tinfo>>

Next ==
  \/ RunLoopBadFlags
  \/ RunLoopInteractive
  \/ RunLoopBatch
  \/ RunLoopBatchReturn
  \/ CmdStart
  \/ CmdUci
  \/ CmdUciOption
  \/ CmdUciOk
  \/ CmdSetOption
  \/ CmdUnknown
  \/ Quit
  \/ WorkerGame
  \/ WorkerStatus
  \/ WorkerInfo
  \/ RunBlockingReturn
  \/ DtorAbort
  \/ DtorJoin

Spec == Init /\ [][Next]_vars

\* The lifecycle with the scheduling the claims about shutdown assume: the
\* destructor's thread keeps running, and a worker whose abort signal is set
\* reaches a checkpoint and returns.
AbortedReturn == abort_ /\ RunBlockingReturn

FairSpec == Spec /\ WF_vars(DtorJoin) /\ WF_vars(AbortedReturn)

\* ------------------------------------------- the two formatters on their own
\* A batch-mode run (loop.cc 56-66) about to make its first callback, with the
\* callback's argument drawn from the whole input set.
InitCallback ==
  /\ ctl = [pc |-> "batch", k |-> 0]
  /\ tournament_ = 0
  /\ thread_ = 0
  /\ nTournaments = 1
  /\ nThreads = 0
  /\ abort_ = FALSE
  /\ runner = "running"
  /\ optval = 0
  /\ out = <<Line(0, <<Group("id", <<>>)>>)>>
  /\ nEvents = 0
  /\ nCmds = 0
  /\ nStarts = 0
  /\ params = NoParams

InitGame == InitCallback /\ ginfo \in GameInfos /\ tinfo = NoTournamentInfo

ApplySendGameInfo == nEvents = 0 /\ DeliverGameInfo(ginfo)

GameSpec == InitGame /\ [][ApplySendGameInfo]_vars

InitStats == InitCallback /\ ginfo = NoGameInfo /\ tinfo \in TournamentInfos

ApplySendTournament == nEvents = 0 /\ DeliverTournament(tinfo)

StatsSpec == InitStats /\ [][ApplySendTournament]_vars

ParamsNext == ConstructParams \/ UpdateStore \/ ReadParam

\* A SearchParams object over a store that changes around it.
ParamsSpec == Init /\ [][ParamsNext]_vars

\* ------------------------------------------------------------- observation
HasGroup(groups, tag) == \E i \in 1..Len(groups) : groups[i].tag = tag

Tags(groups) == [i \in 1..Len(groups) |-> groups[i].tag]

\* The lines callback number ev handed to the sink, in sink order.
LinesOf(ev) == SelectSeq(out, LAMBDA l : l.ev = ev)

IsLine(l, name) == l.groups[1].tag = name

\* The status line of the one callback of StatsSpec, once it was made.
StatusDone == nEvents = 1 /\ Len(LinesOf(1)) = 1

StatusLine == LinesOf(1)[1].groups

TallyWin == tinfo.results[0][0] + tinfo.results[0][1]

TallyDraw == tinfo.results[1][0] + tinfo.results[1][1]

TallyLoss == tinfo.results[2][0] + tinfo.results[2][1]

\* 0 < p < 1 for p = (draw/2 + win) / (win + loss + draw), games played.
ScoreStrictlyInside ==
  /\ TallyWin + TallyLoss + TallyDraw > 0
  /\ 2 * TallyWin + TallyDraw > 0
  /\ 2 * TallyWin + TallyDraw < 2 * (TallyWin + TallyLoss + TallyDraw)

\* The gameready line of the one callback of GameSpec, once it was made.
GameDone == nEvents = 1 /\ Len(LinesOf(1)) >= 1

GameReadyLine == LinesOf(1)[Len(LinesOf(1))].groups

\* Place of a group in the grammar of the gameready line.
GroupRank(tag) ==
  CASE tag = "gameready" -> 0
    [] tag = "trainingfile" -> 1
    [] tag = "gameid" -> 2
    [] tag = "player1" -> 3
    [] tag = "result" -> 4
    [] tag = "moves" -> 5
    [] OTHER -> 6

\* ------------------------------------------------------------------ claims
\* C1: after any sequence of commands at most one tournament and at most one
\* thread were ever constructed, and tournament_ and thread_ name them.
C1_AtMostOneHandle ==
  /\ nTournaments <= 1
  /\ nThreads <= 1
  /\ tournament_ \in {0, nTournaments}
  /\ thread_ \in {0, nThreads}

\* C1 witness: a second start was processed and there is still one tournament.
C1_SecondStartSeen == nStarts >= 2 /\ tournament_ = 1 /\ nTournaments = 1

\* C2: a start command processed while tournament_ is set changes nothing of
\* the handle, the thread, the worker, the options or the output.
C2_RedundantStartIsNoOp ==
  [][(nStarts' = nStarts + 1 /\ tournament_ # 0)
       => UNCHANGED <<ctl, tournament_, thread_, nTournaments, nThreads, abort_,
                      runner, optval, out>>]_vars

\* C2 witness: two starts were processed, the worker of the first is still
\* running, and nothing was written.
C2_RedundantStartDone ==
  nStarts >= 2 /\ thread_ = 1 /\ runner = "running" /\ out = <<>>

\* C3: the orchestrator is never destroyed while RunBlocking() is executing;
\* with a thread, the destructor returned only after the thread's function did.
C3_NoWorkerAfterDestruction ==
  At("destroyed") => (runner # "running" /\ (thread_ # 0 => runner = "exited"))

\* C3 witness: destroyed with a background thread, which has exited.
C3_DestroyedWithThread == At("destroyed") /\ thread_ # 0 /\ runner = "exited"

\* C4: with an active handle the abort signal is set before the destructor
\* blocks in join, and under the fair scheduling of FairSpec a destructor that
\* reached join always returns.
C4_DestructionCompletes ==
  /\ []((At("dtor_join") /\ tournament_ # 0) => abort_)
  /\ (At("dtor_join") ~> At("destroyed"))

\* C4 witness: the destructor is blocked in join, the signal is set, and the
\* worker is still in the middle of the tournament.
C4_AbortedWhileRunning == At("dtor_join") /\ abort_ /\ runner = "running"

\* C5: the status line has the Win: field iff win + loss + draw > 0.
C5_WinIffGamesPlayed ==
  StatusDone =>
    (HasGroup(StatusLine, "Win:") <=> (TallyWin + TallyLoss + TallyDraw > 0))

\* C6: the status line has the Elo: field iff the score fraction is defined
\* and strictly between 0 and 1.
C6_EloIffScoreInside ==
  StatusDone => (HasGroup(StatusLine, "Elo:") <=> ScoreStrictlyInside)

\* C6 witness: win=5, loss=0, draw=0 was reported, without Elo.
C6_FullScoreReported ==
  /\ StatusDone
  /\ TallyWin = 5 /\ TallyLoss = 0 /\ TallyDraw = 0
  /\ ~HasGroup(StatusLine, "Elo:")

C8_ZeroTallyLine ==
  tinfo.results = ZeroTally =>
    /\ nEvents = 0 => ENABLED ApplySendTournament
    /\ Percentage(tinfo).d > 0
    /\ StatusDone =>
         Tags(StatusLine) =
           <<"tournamentstatus">> \o (IF tinfo.finished THEN <<"final">> ELSE <<>>)
             \o <<"P1:", "P1-W:", "P1-B:">>

\* C8 witness: the final status of a tournament without games was reported.
C8_ZeroTallyReported ==
  StatusDone /\ tinfo.results = ZeroTally /\ tinfo.finished

\* C9: a game callback hands over exactly one gameready line, and a
\* resign_report line iff the threshold is present, the resign_report first.
C9_ResignReportThenGameReady ==
  nEvents = 1 =>
    /\ Len(SelectSeq(LinesOf(1), LAMBDA l : IsLine(l, "gameready"))) = 1
    /\ Len(SelectSeq(LinesOf(1), LAMBDA l : IsLine(l, "resign_report")))
         = (IF ginfo.min_false_positive_threshold.has THEN 1 ELSE 0)
    /\ Len(LinesOf(1)) = (IF ginfo.min_false_positive_threshold.has THEN 2 ELSE 1)
    /\ ginfo.min_false_positive_threshold.has
         => /\ IsLine(LinesOf(1)[1], "resign_report")
            /\ IsLine(LinesOf(1)[2], "gameready")

\* C9 witness: a game with the present threshold 0.0 was reported in two lines.
C9_ZeroThresholdReported ==
  /\ nEvents = 1
  /\ ginfo.min_false_positive_threshold = [has |-> TRUE, val |-> 0]
  /\ Len(LinesOf(1)) = 2

\* C10: each optional group of the gameready line is there iff its value is
\* present, and the groups stand in the order trainingfile, gameid, player1,
\* result, moves.
C10_GameReadyGroups ==
  GameDone =>
    /\ HasGroup(GameReadyLine, "trainingfile") <=> (ginfo.training_filename # "")
    /\ HasGroup(GameReadyLine, "gameid") <=> (ginfo.game_id # -1)
    /\ HasGroup(GameReadyLine, "player1") <=> ginfo.is_black.has
    /\ HasGroup(GameReadyLine, "result") <=> (ginfo.game_result # "UNDECIDED")
    /\ HasGroup(GameReadyLine, "moves") <=> (Len(ginfo.moves) > 0)
    /\ GameReadyLine[1].tag = "gameready"
    /\ \A i, j \in 1..Len(GameReadyLine) :
         i < j => GroupRank(GameReadyLine[i].tag) < GroupRank(GameReadyLine[j].tag)

\* C10 witness: a game with every value present was reported with all groups.
C10_AllGroupsReported ==
  /\ GameDone
  /\ Tags(GameReadyLine)
       = <<"gameready", "trainingfile", "gameid", "player1", "result", "moves">>

\* The lines the control context wrote itself, in sink order.
CtlLines == SelectSeq(out, LAMBDA l : l.ev = 0)

CountCtl(name) == Len(SelectSeq(CtlLines, LAMBDA l : IsLine(l, name)))

\* A run of RunLoop in batch mode: its tournament is not held in tournament_.
BatchRun == At("batch") \/ (nTournaments > 0 /\ tournament_ = 0)

\* The words of the group `tag` of a line that has it.
ArgsOf(groups, tag) ==
  groups[CHOOSE i \in 1..Len(groups) : groups[i].tag = tag].args

\* The option a cached accessor's member is a snapshot of.
CachedId(acc, at_root) ==
  CASE acc = "GetCcon" -> IF at_root THEN "kCconAtRootId" ELSE "kCconId"
    [] acc = "GetCpen" -> IF at_root THEN "kCpenAtRootId" ELSE "kCpenId"
    [] acc = "GetCatt" -> IF at_root THEN "kCattAtRootId" ELSE "kCattId"
    [] acc = "GetFpuAbsolute" ->
         IF at_root THEN "kFpuStrategyAtRootId" ELSE "kFpuStrategyId"
    [] acc = "GetFpuValue" -> IF at_root THEN "kFpuValueAtRootId" ELSE "kFpuValueId"
    [] acc = "GetMiniBatchSize" -> "kMiniBatchSizeId"
    [] acc = "GetNoiseEpsilon" -> "kNoiseEpsilonId"

\* The option a live accessor reads.
LiveId(acc) ==
  CASE acc = "GetTemperature" -> "kTemperatureId"
    [] acc = "GetMultiPv" -> "kMultiPvId"
    [] acc = "GetMaxPrefetchBatch" -> "kMaxPrefetchBatchId"

\* A step that is an accessor call.
ReadStep == params'.nReads = params.nReads + 1

\* A step in which the control context writes an error line.
ErrorStep ==
  /\ Len(out') = Len(out) + 1
  /\ out'[Len(out')].ev = 0
  /\ IsLine(out'[Len(out')], "error")

\* C11: a status callback hands over exactly one tournamentstatus line, and
\* the line has `final`, right after tournamentstatus and before P1:, iff the
\* finished flag is set.
C11_FinalIffFinished ==
  nEvents = 1 =>
    /\ Len(LinesOf(1)) = 1
    /\ StatusLine[1].tag = "tournamentstatus"
    /\ HasGroup(StatusLine, "final") <=> tinfo.finished
    /\ tinfo.finished => (StatusLine[2].tag = "final" /\ StatusLine[3].tag = "P1:")
    /\ ~tinfo.finished => StatusLine[2].tag = "P1:"

\* C11 witness: the final status of a tournament with games was reported.
C11_FinalReported ==
  /\ nEvents = 1
  /\ tinfo.finished
  /\ TallyWin + TallyLoss + TallyDraw > 0
  /\ StatusLine[2].tag = "final"

\* C12: in batch mode the first line of the sink is the id, written by the
\* control context before any callback's line; no thread is ever constructed,
\* and RunBlocking() runs while the control context is inside RunLoop.
C12_BatchIdFirstNoThread ==
  /\ BatchRun =>
       /\ nThreads = 0
       /\ thread_ = 0
       /\ Len(out) >= 1
       /\ out[1].ev = 0
       /\ IsLine(out[1], "id")
       /\ \A i \in 1..Len(out) : out[i].ev > 0 => i > 1
  /\ (runner = "running" /\ thread_ = 0) => At("batch")

\* C12 witness: a batch run has returned after reporting games or status.
C12_BatchRunReturned ==
  At("returned") /\ BatchRun /\ nEvents >= 1 /\ Len(out) >= 2

\* C13: among the lines of the control context, every uciok closes a block of
\* the id and then the option lines in order; there is one uciok per finished
\* uci command and none during an unfinished one.
C13_UciResponseOrder ==
  ~BatchRun =>
    LET c == CtlLines
        n(name) == Cardinality({i \in 1..Len(c) : IsLine(c[i], name)})
        oks == n("uciok")
    IN /\ oks = n("id") - (IF At("uci") THEN 1 ELSE 0)
       /\ n("option") = NumOptions * oks + (IF At("uci") THEN ctl.k ELSE 0)
       /\ \A i \in 1..Len(c) :
            IsLine(c[i], "uciok") =>
              /\ i > NumOptions + 1
              /\ IsLine(c[i - NumOptions - 1], "id")
              /\ \A j \in 1..NumOptions :
                   c[i - NumOptions - 1 + j].groups
                     = <<Group("option", <<IntToString(j)>>)>>

\* C13 witness: a uci command was answered while the worker was writing too.
C13_UciAnsweredWhileRunning ==
  /\ At("loop")
  /\ CountCtl("uciok") >= 1
  /\ Len(out) > Len(CtlLines)
  /\ IsLine(out[Len(out)], "uciok")

\* C14: a paired accessor returns the member of the side asked for, which is
\* the value its option had at construction, whatever was read before; and an
\* accessor call changes neither the store nor the object.
C14_PairedReads ==
  /\ []((params.nReads > 0 /\ params.read.acc \in PairedAccessors)
          => params.read.val
               = params.snap[CachedId(params.read.acc, params.read.at_root)])
  /\ [][ReadStep => /\ params'.store = params.store
                    /\ params'.k = params.k
                    /\ params'.snap = params.snap
                    /\ params'.constructed = params.constructed]_vars

\* C14 witness: the second read is a root read of GetCcon, and it returned
\* the root option's value.
C14_RootReadAfterReads ==
  /\ params.nReads = 2
  /\ params.read = [acc |-> "GetCcon", at_root |-> TRUE, val |-> 2]

\* C15: whatever updates the store has seen, a cached accessor returns the
\* value its option had at construction and a live accessor returns the
\* store's value at the time of the call.
C15_CachedAndLiveReads ==
  [][ReadStep =>
       /\ params'.read.acc \in CachedAccessors
            => params'.read.val
                 = params.snap[CachedId(params'.read.acc, params'.read.at_root)]
       /\ params'.read.acc \in LiveAccessors
            => params'.read.val = params.store[LiveId(params'.read.acc)]]_vars

\* C15 witness: the store was changed after construction, and a live read
\* returned the changed value.
C15_LiveReadSeesUpdate ==
  /\ params.read = [acc |-> "GetTemperature", at_root |-> FALSE, val |-> 33]
  /\ params.snap["kTemperatureId"] = 13

\* C16: a command answered with an error line leaves the tournament handle,
\* the thread, the worker and the abort signal as they were, and leaves the
\* control context reading commands.
C16_ErrorRejectsOnlyCommand ==
  [][ErrorStep =>
       /\ UNCHANGED <<tournament_, thread_, nTournaments, nThreads, abort_, runner>>
       /\ At("loop")
       /\ ctl' = ctl]_vars

\* C16 witness: an error was reported and the next command, uci, was answered.
C16_CommandAfterError ==
  /\ Len(out) >= 2
  /\ IsLine(out[1], "error")
  /\ IsLine(out[2], "id")

\* C17: for a tally with win = loss > 0 the status line reads Win: 50.00%,
\* Elo: 0.00 (no sign) and LOS: 50.00%.
C17_EvenScoreText ==
  (StatusDone /\ TallyWin = TallyLoss /\ TallyWin > 0) =>
    /\ HasGroup(StatusLine, "Win:") /\ ArgsOf(StatusLine, "Win:") = <<"50.00%">>
    /\ HasGroup(StatusLine, "Elo:")
    /\ ArgsOf(StatusLine, "Elo:") \in {<<"0.00">>, <<" 0.00">>}
    /\ HasGroup(StatusLine, "LOS:") /\ ArgsOf(StatusLine, "LOS:") = <<"50.00%">>

\* C18: once tournament_ is set, no step changes it or constructs another
\* tournament, and a start command processed after the worker has exited
\* changes nothing.
C18_HandleNeverCleared ==
  [][/\ tournament_ # 0
          => /\ tournament_' = tournament_
             /\ thread_' = thread_
             /\ nTournaments' = nTournaments
     /\ (nStarts' = nStarts + 1 /\ runner = "exited")
          => UNCHANGED <<tournament_, thread_, nTournaments, nThreads, runner, out>>]_vars

\* C18 witness: the tournament finished on its own with a final status line,
\* two starts were processed, and there is still the one handle.
C18_StartAfterFinish ==
  /\ At("loop")
  /\ runner = "exited"
  /\ nStarts = 2
  /\ tournament_ = 1 /\ nTournaments = 1
  /\ \E i \in 1..Len(out) : out[i].ev > 0 /\ HasGroup(out[i].groups, "final")

\* C19: the thread exists iff the tournament handle exists; neither exists
\* before the first start or in batch mode; and a destructor that joins a
\* thread has signalled its tournament.
C19_ThreadIffHandle ==
  /\ thread_ # 0 <=> tournament_ # 0
  /\ (At("init") \/ At("batch") \/ nStarts = 0) => (thread_ = 0 /\ tournament_ = 0)
  /\ ((At("dtor_join") \/ At("destroyed")) /\ thread_ # 0) => abort_

\* C19 witness: a destructor joined the thread of a signalled tournament.
C19_JoinedSignalledThread ==
  At("destroyed") /\ thread_ = 1 /\ tournament_ = 1 /\ abort_

\* C20: every resign_report line of the sink is followed at once by the
\* gameready line of the same callback.
C20_ResignReportAdjacent ==
  \A i \in 1..Len(out) :
    IsLine(out[i], "resign_report") =>
      /\ i < Len(out)
      /\ out[i + 1].ev = out[i].ev
      /\ IsLine(out[i + 1], "gameready")

\* C20 witness: a game was reported in the middle of a uci response, and its
\* two lines stand together between lines of the control context.
C20_PairInsideUciResponse ==
  \E i \in 2..Len(out) :
    /\ i + 2 <= Len(out)
    /\ IsLine(out[i - 1], "id")
    /\ IsLine(out[i], "resign_report")
    /\ IsLine(out[i + 1], "gameready")
    /\ out[i + 2].ev = 0

====
